---- MODULE Spec2Model ----
(***************************************************************************)
(* Model of src/src/workspace.ts: the Workspace class of polymer-workspace.*)
(* One Workspace object; init() calls (each an async function whose awaits *)
(* are the steps of the model) and the post-init verbs run,                *)
(* startNewBranch, commitChanges, pushChangesToGithub, publishPackagesToNpm*)
(* An init() call runs in an activation frame.  The model keeps what a call *)
(* returned or threw until the caller makes its next call, which releases  *)
(* the frames of the calls that are over.                                  *)
(*                                                                         *)
(* batchProcess and the concurrency presets live in util/batch-process,    *)
(* which is not among the sources: batchProcess is modelled from the       *)
(* specification's BatchExecutor contract (section 4.1), and a preset,     *)
(* whose value is given nowhere, is read as any of 1..MaxConcurrency.      *)
(* The collaborators (git, GitHub, bower, fs, exec) are external: every    *)
(* awaited call of one resolves or rejects nondeterministically.           *)
(***************************************************************************)
EXTENDS Integers, Sequences, FiniteSets, TLC

\* ------------------------------------------------------------------ bounds
\* repositories that the include patterns of one init() call expand to
MaxRepos == 2
\* largest concurrency a caller of run() passes, and the largest preset value
MaxConcurrency == 2
\* init() calls made on the one Workspace
MaxInitCalls == 2

Undefined == "undefined"

\* the activation frames of init(): two calls can be in progress at once
Frames == {1, 2}
\* the repositories of the hosting namespace
Refs == {1, 2, 3}

\* ------------------------------------------------------- strings and names
\* A string is a sequence of one-character strings.
UpperToLower ==
  [c \in {"A", "B", "C", "D", "P", "Q"} |->
     CASE c = "A" -> "a" [] c = "B" -> "b" [] c = "C" -> "c"
       [] c = "D" -> "d" [] c = "P" -> "p" [] c = "Q" -> "q"]

\* String.prototype.toLowerCase applied to the string s
ToLowerCase(s) ==
  [i \in 1..Len(s) |-> IF s[i] \in DOMAIN UpperToLower THEN UpperToLower[s[i]] ELSE s[i]]

\* The hosting namespace: reference i is owner/name.  References 1 and 3 share
\* the short name under different owners.
OwnerOf(i) == IF i % 3 = 0 THEN <<"Q">> ELSE <<"P">>
NameOf(i) == CASE i % 3 = 1 -> <<"A">> [] i % 3 = 2 -> <<"b">> [] OTHER -> <<"A">>
RefId(i) == IF i <= 3 THEN <<>> ELSE <<"D">>

\* GitHubRepoReference.fullName
FullName(i) == OwnerOf(i) \o <<"/">> \o NameOf(i) \o RefId(i)
\* GitHubRepo.name, the repository's short name
ShortName(i) == NameOf(i) \o RefId(i)

\* path.resolve(this.dir, repo.name): the directory is named by the short name
SessionDir(i) == <<".", "/">> \o ShortName(i)

\* ------------------------------------------------------------- sequences
Range(s) == {s[i] : i \in 1..Len(s)}

RECURSIVE SeqOfSet(_)
\* the elements of a set of numbers in increasing order
SeqOfSet(S) ==
  IF S = {} THEN <<>>
  ELSE LET m == CHOOSE x \in S : \A y \in S : x <= y
       IN <<m>> \o SeqOfSet(S \ {m})

\* Array.prototype.filter
RECURSIVE Filter(_, _)
Filter(s, keep) ==
  IF s = <<>> THEN <<>>
  ELSE (IF Head(s) \in keep THEN <<Head(s)>> ELSE <<>>) \o Filter(Tail(s), keep)

\* Map.prototype.set on a map held as a function
MapSet(m, k, v) == [x \in DOMAIN m \cup {k} |-> IF x = k THEN v ELSE m[x]]
MapDelete(m, k) == [x \in DOMAIN m \ {k} |-> m[x]]
EmptyMap == [x \in {} |-> Undefined]

\* ------------------------------------------------- batchProcess (section 4.1)
\* A call of batchProcess(items, op, {concurrency}) in progress: the items in
\* input order, the index of the next item to launch, the operations in flight
\* (item -> the awaited call the operation is suspended at), and the two result
\* maps (successes as its keys in insertion order, failures as item -> error).
BatchProcess(items, concurrency) ==
  [items |-> items, concurrency |-> concurrency, next |-> 1,
   inflight |-> EmptyMap, successes |-> <<>>, failures |-> EmptyMap]

InFlight(b) == DOMAIN b.inflight

\* a window that admits one operation more than `concurrency`
CanLaunchTooMany(b) ==
  b.next <= Len(b.items) /\ Cardinality(InFlight(b)) <= b.concurrency

\* an item is pending and the window permits a launch
CanLaunch(b) ==
  b.next <= Len(b.items) /\ Cardinality(InFlight(b)) < b.concurrency

\* the next pending item's operation is started and suspends at `step`
Launch(b, step) ==
  [b EXCEPT !.next = @ + 1, !.inflight = MapSet(@, b.items[b.next], step)]

\* an operation in flight moves on to its next awaited call
Suspend(b, item, step) == [b EXCEPT !.inflight = MapSet(@, item, step)]

\* a resolved operation that is entered in both result maps
SucceedAlsoFails(b, item) ==
  [b EXCEPT !.inflight = MapDelete(@, item), !.successes = Append(@, item),
            !.failures = MapSet(@, item, Undefined)]

\* the operation on `item` resolved: one entry in the success map
Succeed(b, item) ==
  [b EXCEPT !.inflight = MapDelete(@, item), !.successes = Append(@, item)]

\* a rejection that cancels the items not yet started
FailCancelsRest(b, item, error) ==
  [b EXCEPT !.inflight = MapDelete(@, item), !.failures = MapSet(@, item, error),
            !.next = Len(b.items) + 1]

\* the operation on `item` rejected: caught, one entry in the failure map
Fail(b, item, error) ==
  [b EXCEPT !.inflight = MapDelete(@, item), !.failures = MapSet(@, item, error)]

\* the items whose operation has been started
Started(b) == {b.items[i] : i \in 1..(b.next - 1)}

\* every item has its outcome: the call resolves
Resolved(b) == b.next > Len(b.items) /\ InFlight(b) = {}

NoBatch == BatchProcess(<<>>, 1)

\* ------------------------------------------------------------------ state
VARIABLES
  initializedRepos,      \* this._initializedRepos: [defined, repos]
  overlap,               \* the kinds of call the caller makes while an init()
                         \* call is in progress, instead of awaiting it
  hosted,                \* the repositories the hosting service holds
  calls,                 \* init() calls made so far
  callNo,                \* frame -> which init() call runs in it
  pc,                    \* frame -> where the init() call is suspended
  thrown,                \* frame -> the error the init() call rejected with
  exclude,               \* frame -> excludes, lower-cased (line 101)
  repoRefs,              \* frame -> repoRefs after the exclude filter
  repoInfo,              \* frame -> (ref -> "pending" | "ok" | "error")
  githubRepos,           \* frame -> the resolved repositories, one WorkspaceRepo each
  workspaceRepos,        \* frame -> let workspaceRepos
  failedWorkspaceRepos,  \* frame -> const failedWorkspaceRepos
  fsConcurrencyPreset,   \* frame -> the preset as the init() call reads it
  batch,                 \* frame -> the batchProcess call the init() call awaits
  phaseFailures,         \* frame -> the failures map each phase's batch resolved with
  phaseSets,             \* frame -> workspaceRepos after resolution and after each phase
  bowerConfig,           \* frame -> bowerConfig.dependencies (name -> the repo whose
                         \* task wrote the entry ./name#sha with the sha it read)
                         \* and whether bower.json has been written
  installs,              \* frame -> how many times bower install was started
  invoked,               \* frame -> the collaborators the init() call has called
  verb,                  \* the latest post-init verb call: which verb, the
                         \* concurrency argument given to run (<<>>: omitted),
                         \* where the call is, the error it threw
  vbatch                 \* the batchProcess call of the verb call

workspace == <<initializedRepos, overlap, hosted>>
resolution == <<exclude, repoRefs, repoInfo, githubRepos>>
pipeline == <<workspaceRepos, failedWorkspaceRepos, phaseFailures, phaseSets>>
manifest == <<bowerConfig, installs>>
initVars == <<calls, callNo, pc, thrown, resolution, pipeline, manifest,
              fsConcurrencyPreset, batch, invoked>>
verbVars == <<verb, vbatch>>
vars == <<workspace, initVars, verbVars>>

\* the values a concurrency preset of util/batch-process may have
PresetValues == 1..MaxConcurrency

\* the messages of the two errors about the initialization state, lines 90, 233
NotInitializedError == "Workspace has not been initialized, run init() first."
AlreadyInitializedError == "Workspace has already been initialized."

\* this._initializedRepos before any init() has completed
NotInitialized == [defined |-> FALSE, repos |-> <<>>]

\* get isInitialized: !!this._initializedRepos (an empty array is truthy)
IsInitialized == initializedRepos.defined

\* the exclude lists a caller passes: none, or one full name in some case
ExcludeLists ==
  {<<>>} \cup {<<FullName(i)>> : i \in Refs} \cup {<<ToLowerCase(FullName(i))>> : i \in Refs}

\* what expandRepoPatterns can resolve with: the hosted repositories that the
\* include patterns match
Expansions == {SeqOfSet(S) : S \in {T \in SUBSET hosted : Cardinality(T) <= MaxRepos}}

\* no bowerConfig yet
NoManifest == [dependencies |-> EmptyMap, persisted |-> FALSE]

NoVerb == [kind |-> "none", concurrency |-> <<>>, pc |-> "idle", error |-> Undefined]

\* the state of the frames before any call
NewFrames ==
  /\ callNo = [f \in Frames |-> 0]
  /\ pc = [f \in Frames |-> "idle"]
  /\ thrown = [f \in Frames |-> Undefined]
  /\ exclude = [f \in Frames |-> <<>>]
  /\ repoRefs = [f \in Frames |-> <<>>]
  /\ repoInfo = [f \in Frames |-> EmptyMap]
  /\ githubRepos = [f \in Frames |-> <<>>]
  /\ workspaceRepos = [f \in Frames |-> <<>>]
  /\ failedWorkspaceRepos = [f \in Frames |-> EmptyMap]
  /\ fsConcurrencyPreset = [f \in Frames |-> 1]
  /\ batch = [f \in Frames |-> NoBatch]
  /\ phaseFailures = [f \in Frames |-> <<>>]
  /\ phaseSets = [f \in Frames |-> <<>>]
  /\ bowerConfig = [f \in Frames |-> NoManifest]
  /\ installs = [f \in Frames |-> 0]
  /\ invoked = [f \in Frames |-> {}]

\* new Workspace({token, dir}), lines 72-75
Constructed ==
  /\ initializedRepos = NotInitialized
  /\ calls = 0
  /\ NewFrames
  /\ verb = NoVerb
  /\ vbatch = NoBatch

\* a caller that awaits every call it makes
Init ==
  /\ Constructed
  /\ overlap = {}
  /\ hosted = Refs

\* a caller that calls the verbs without awaiting init(), over one hosted
\* repository
OverlapHosted == {1}
InitEarlyVerbs ==
  /\ Constructed
  /\ overlap = {"verb"}
  /\ hosted = OverlapHosted

\* a caller that calls init() again without awaiting the call in progress,
\* over one hosted repository
InitOverlap ==
  /\ Constructed
  /\ overlap = {"init"}
  /\ hosted = OverlapHosted

\* --------------------------------------------------------------- init()
InFlightCall(f) == pc[f] \notin {"idle", "done", "thrown"}

\* the caller may make a call of this kind: it awaits a verb call, and an
\* init() call unless calls of the kind overlap it
MayCall(kind) ==
  /\ verb.pc # "running"
  /\ kind \in overlap \/ \A g \in Frames : ~InFlightCall(g)

\* the frame a new init() call takes: the first one with no call in progress
FreeFrame(f) ==
  /\ MayCall("init")
  /\ ~InFlightCall(f)
  /\ \A g \in Frames : g < f => InFlightCall(g)

\* a frame variable once the frames of the calls that are over are released
Released(x, initial) == [g \in Frames |-> IF InFlightCall(g) THEN x[g] ELSE initial]

\* the record of a verb call that is over is dropped
ReleaseVerb ==
  /\ verb' = IF verb.pc = "running" THEN verb ELSE NoVerb
  /\ vbatch' = IF verb.pc = "running" THEN vbatch ELSE NoBatch

ReleaseFrames ==
  /\ callNo' = Released(callNo, 0)
  /\ pc' = Released(pc, "idle")
  /\ thrown' = Released(thrown, Undefined)
  /\ invoked' = Released(invoked, {})
  /\ exclude' = Released(exclude, <<>>)
  /\ repoRefs' = Released(repoRefs, <<>>)
  /\ repoInfo' = Released(repoInfo, EmptyMap)
  /\ githubRepos' = Released(githubRepos, <<>>)
  /\ workspaceRepos' = Released(workspaceRepos, <<>>)
  /\ failedWorkspaceRepos' = Released(failedWorkspaceRepos, EmptyMap)
  /\ fsConcurrencyPreset' = Released(fsConcurrencyPreset, 1)
  /\ batch' = Released(batch, NoBatch)
  /\ phaseFailures' = Released(phaseFailures, <<>>)
  /\ phaseSets' = Released(phaseSets, <<>>)
  /\ bowerConfig' = Released(bowerConfig, NoManifest)
  /\ installs' = Released(installs, 0)

\* the init() call in frame f rejects with `error`
Throw(f, error) ==
  /\ pc' = [pc EXCEPT ![f] = "thrown"]
  /\ thrown' = [thrown EXCEPT ![f] = error]

Goto(f, label) ==
  /\ pc' = [pc EXCEPT ![f] = label]
  /\ UNCHANGED thrown

Invoke(f, names) == invoked' = [invoked EXCEPT ![f] = @ \cup names]

\* a new activation of init() in frame f, suspended at `label`
Activate(f, label, error, names) ==
  /\ calls < MaxInitCalls
  /\ calls' = calls + 1
  /\ callNo' = [Released(callNo, 0) EXCEPT ![f] = calls + 1]
  /\ pc' = [Released(pc, "idle") EXCEPT ![f] = label]
  /\ thrown' = [Released(thrown, Undefined) EXCEPT ![f] = error]
  /\ invoked' = [Released(invoked, {}) EXCEPT ![f] = names]
  /\ exclude' = Released(exclude, <<>>)
  /\ repoRefs' = Released(repoRefs, <<>>)
  /\ repoInfo' = Released(repoInfo, EmptyMap)
  /\ githubRepos' = Released(githubRepos, <<>>)
  /\ workspaceRepos' = Released(workspaceRepos, <<>>)
  /\ failedWorkspaceRepos' = Released(failedWorkspaceRepos, EmptyMap)
  /\ fsConcurrencyPreset' = Released(fsConcurrencyPreset, 1)
  /\ batch' = Released(batch, NoBatch)
  /\ phaseFailures' = Released(phaseFailures, <<>>)
  /\ phaseSets' = Released(phaseSets, <<>>)
  /\ bowerConfig' = Released(bowerConfig, NoManifest)
  /\ installs' = Released(installs, 0)
  /\ ReleaseVerb

\* an _initValidate without the check of line 232
NeverAlreadyInitialized == FALSE

\* _initValidate, line 232: whether it throws the already-initialized error
AlreadyInitialized == IsInitialized

\* init() is called and _initValidate finds the Workspace initialized
InitRejected(f) ==
  /\ FreeFrame(f)
  /\ AlreadyInitialized
  /\ Activate(f, "thrown", AlreadyInitializedError, {})
  /\ UNCHANGED workspace

\* init() is called on a Workspace that is not initialized: _initValidate goes
\* on to await checkCommand('git'), line 235
InitCalled(f) ==
  /\ FreeFrame(f)
  /\ ~AlreadyInitialized
  /\ Activate(f, "checkGit", Undefined, {"checkCommand"})
  /\ UNCHANGED workspace

\* a validation that reports the missing command after the patterns were expanded
CommandNotFoundAfterExpansion(f) ==
  /\ pc[f] \in {"checkGit", "checkBower", "checkNpm"}
  /\ Throw(f, "command not found")
  /\ Invoke(f, {"expandRepoPatterns"})
  /\ UNCHANGED <<workspace, calls, callNo, resolution, pipeline, batch,
                 fsConcurrencyPreset, manifest, verbVars>>

\* a required command is missing: lines 235-246
CommandNotFound(f) ==
  /\ pc[f] \in {"checkGit", "checkBower", "checkNpm"}
  /\ Throw(f, "command not found")
  /\ UNCHANGED <<workspace, calls, callNo, resolution, pipeline, batch, invoked,
                 fsConcurrencyPreset, manifest, verbVars>>

\* git, then bower, is found: the next checkCommand is awaited
CommandFound(f) ==
  /\ pc[f] \in {"checkGit", "checkBower"}
  /\ Goto(f, IF pc[f] = "checkGit" THEN "checkBower" ELSE "checkNpm")
  /\ UNCHANGED <<workspace, calls, callNo, resolution, pipeline, batch, invoked,
                 fsConcurrencyPreset, manifest, verbVars>>

\* excludes.map(String.prototype.toLowerCase), line 101: map calls the method
\* with `this` undefined, which throws a TypeError at the first element
LowerCaseThrows(excludes) == excludes # <<>>
\* what line 101 leaves in excludes when it does not throw: map over no element
LowerCased(excludes) == <<>>

\* repoRefs.filter(... !excludes.includes(repoRef.fullName.toLowerCase())), 105-106
ExcludeFilter(refs, excludes) ==
  Filter(refs, {i \in Range(refs) : ToLowerCase(FullName(i)) \notin Range(excludes)})

\* npm is found and validation is over; _determineGitHubRepos is called with
\* patterns.exclude = excludes and throws at line 101
DetermineThrows(f, excludes) ==
  /\ pc[f] = "checkNpm"
  /\ LowerCaseThrows(excludes)
  /\ Throw(f, "TypeError")
  /\ exclude' = [exclude EXCEPT ![f] = excludes]
  /\ UNCHANGED <<workspace, calls, callNo, repoRefs, repoInfo, githubRepos,
                 pipeline, batch, invoked,
                 fsConcurrencyPreset, manifest, verbVars>>

\* npm is found and validation is over; _determineGitHubRepos is called with
\* patterns.exclude = excludes and awaits expandRepoPatterns, lines 101-104
DetermineGitHubRepos(f, excludes) ==
  /\ pc[f] = "checkNpm"
  /\ ~LowerCaseThrows(excludes)
  /\ Goto(f, "expand")
  /\ exclude' = [exclude EXCEPT ![f] = LowerCased(excludes)]
  /\ Invoke(f, {"expandRepoPatterns"})
  /\ UNCHANGED <<workspace, calls, callNo, repoRefs, repoInfo, githubRepos,
                 pipeline, batch,
                 fsConcurrencyPreset, manifest, verbVars>>

\* expandRepoPatterns rejects: the error leaves init()
ExpandFailed(f) ==
  /\ pc[f] = "expand"
  /\ Throw(f, "expandRepoPatterns failed")
  /\ UNCHANGED <<workspace, calls, callNo, resolution, pipeline, batch, invoked,
                 fsConcurrencyPreset, manifest, verbVars>>

\* expandRepoPatterns resolves with refs: the excludes are filtered out and
\* getRepoInfo is called for every remaining reference at once, lines 105-111
Expanded(f, refs) ==
  /\ pc[f] = "expand"
  /\ LET kept == ExcludeFilter(refs, exclude[f])
     IN /\ repoRefs' = [repoRefs EXCEPT ![f] = kept]
        /\ repoInfo' = [repoInfo EXCEPT ![f] = [i \in Range(kept) |-> "pending"]]
        /\ Invoke(f, IF kept = <<>> THEN {} ELSE {"getRepoInfo"})
  /\ Goto(f, "getRepoInfo")
  /\ UNCHANGED <<workspace, calls, callNo, exclude, githubRepos, pipeline, batch,
                 fsConcurrencyPreset, manifest, verbVars>>

\* one getRepoInfo resolves, or rejects and is caught: lines 110-114
GotRepoInfo(f, ref, ok) ==
  /\ pc[f] = "getRepoInfo"
  /\ ref \in DOMAIN repoInfo[f]
  /\ repoInfo[f][ref] = "pending"
  /\ repoInfo' = [repoInfo EXCEPT ![f][ref] = IF ok THEN "ok" ELSE "error"]
  /\ UNCHANGED <<workspace, calls, callNo, pc, thrown, exclude, repoRefs, githubRepos,
                 pipeline, batch, invoked,
                 fsConcurrencyPreset, manifest, verbVars>>

\* _prepareWorkspaceFolders from line 159 on: the workspace folder is created
\* if missing (mkdirSync may throw) and batchProcess is called over the repos
EnsureFolderAndPrepare(f, repos, mkdirOk, c) ==
  IF mkdirOk
    THEN /\ Goto(f, "prepare")
         /\ fsConcurrencyPreset' = [fsConcurrencyPreset EXCEPT ![f] = c]
         /\ batch' = [batch EXCEPT ![f] = BatchProcess(repos, c)]
    ELSE /\ Throw(f, "mkdirSync failed")
         /\ c = 1
         /\ UNCHANGED <<batch, fsConcurrencyPreset>>

\* a resolution that keeps the references whose lookup failed
FoundOrNot(refs, info) == refs

\* the GitHubRepos _determineGitHubRepos returns: the lookups that failed are
\* dropped, lines 117-125
Found(refs, info) == Filter(refs, {i \in DOMAIN info : info[i] = "ok"})

\* every getRepoInfo has settled: a WorkspaceRepo is opened for each repository
\* found (265), the ledger is created (266) and _prepareWorkspaceFolders is
\* called with options.fresh = fresh (269)
OpenWorkspaceRepos(f, fresh, mkdirOk, c) ==
  /\ pc[f] = "getRepoInfo"
  /\ \A i \in DOMAIN repoInfo[f] : repoInfo[f][i] # "pending"
  /\ LET repos == Found(repoRefs[f], repoInfo[f])
     IN /\ githubRepos' = [githubRepos EXCEPT ![f] = repos]
        /\ workspaceRepos' = [workspaceRepos EXCEPT ![f] = repos]
        /\ failedWorkspaceRepos' = [failedWorkspaceRepos EXCEPT ![f] = EmptyMap]
        /\ phaseSets' = [phaseSets EXCEPT ![f] = <<repos>>]
        /\ IF fresh
             THEN /\ mkdirOk /\ c = 1
                  /\ Goto(f, "rimrafWorkspace")
                  /\ UNCHANGED <<batch, fsConcurrencyPreset>>
             ELSE EnsureFolderAndPrepare(f, repos, mkdirOk, c)
  /\ Invoke(f, {"fs"})
  /\ UNCHANGED <<workspace, calls, callNo, exclude, repoRefs, repoInfo,
                 phaseFailures, manifest, verbVars>>

\* options.fresh: rimraf(workspaceDir) settles, line 155
WorkspaceRemoved(f, ok, mkdirOk, c) ==
  /\ pc[f] = "rimrafWorkspace"
  /\ IF ok
       THEN EnsureFolderAndPrepare(f, workspaceRepos[f], mkdirOk, c)
       ELSE /\ mkdirOk /\ c = 1
            /\ Throw(f, "rimraf(workspaceDir) failed")
            /\ UNCHANGED <<batch, fsConcurrencyPreset>>
  /\ UNCHANGED <<workspace, calls, callNo, resolution, pipeline, invoked, manifest, verbVars>>

\* ---- phase: prepare folders (lines 169-176)
\* the operation starts on the next repo: a folder that is no git repository
\* is removed (rimraf is awaited), anything else is left as it is
PrepareLaunched(f, dirState) ==
  /\ pc[f] = "prepare"
  /\ CanLaunch(batch[f])
  /\ batch' = [batch EXCEPT ![f] = Launch(@, IF dirState = "folder" THEN "rimraf" ELSE "return")]
  /\ Invoke(f, IF dirState = "absent" THEN {"fs"} ELSE {"fs", "git"})
  /\ UNCHANGED <<workspace, calls, callNo, pc, thrown, resolution, pipeline,
                 fsConcurrencyPreset, manifest, verbVars>>

PrepareSucceeded(f, repo) ==
  /\ pc[f] = "prepare"
  /\ repo \in InFlight(batch[f])
  /\ batch' = [batch EXCEPT ![f] = Succeed(@, repo)]
  /\ UNCHANGED <<workspace, calls, callNo, pc, thrown, resolution, pipeline, invoked,
                 fsConcurrencyPreset, manifest, verbVars>>

\* rimraf(repo.dir) rejects, line 174: batchProcess catches the error
PrepareFailed(f, repo) ==
  /\ pc[f] = "prepare"
  /\ repo \in InFlight(batch[f])
  /\ batch[f].inflight[repo] = "rimraf"
  /\ batch' = [batch EXCEPT ![f] = Fail(@, repo, "rimraf(repo.dir) failed")]
  /\ UNCHANGED <<workspace, calls, callNo, pc, thrown, resolution, pipeline, invoked,
                 fsConcurrencyPreset, manifest, verbVars>>

\* a collectFailures that keeps only the failures of the latest phase
CollectOnlyLatest(collection, failures) == failures

\* a collectFailures that adds nothing to the collection
CollectNothing(collection, failures) == collection

\* async function collectFailures, lines 30-36 (it has no await: it runs to its
\* end when called)
collectFailures(collection, failures) ==
  [x \in DOMAIN collection \cup DOMAIN failures |->
     IF x \in DOMAIN failures THEN failures[x] ELSE collection[x]]

\* the prepare batch has resolved: init() drops the result (line 269) and calls
\* _cloneOrUpdateWorkspaceRepos with the same workspaceRepos (line 273)
PrepareDone(f) ==
  /\ pc[f] = "prepare"
  /\ Resolved(batch[f])
  /\ phaseFailures' = [phaseFailures EXCEPT ![f] = Append(@, batch[f].failures)]
  /\ phaseSets' = [phaseSets EXCEPT ![f] = Append(@, workspaceRepos[f])]
  /\ batch' = [batch EXCEPT ![f] = BatchProcess(workspaceRepos[f], fsConcurrencyPreset[f])]
  /\ Goto(f, "clone")
  /\ UNCHANGED <<workspace, calls, callNo, resolution, workspaceRepos,
                 failedWorkspaceRepos, invoked, fsConcurrencyPreset, manifest, verbVars>>

\* ---- phase: clone or update (lines 185-193)
CloneLaunched(f, isGit) ==
  /\ pc[f] = "clone"
  /\ CanLaunch(batch[f])
  /\ batch' = [batch EXCEPT ![f] = Launch(@, IF isGit THEN "git.fetch" ELSE "git.clone")]
  /\ Invoke(f, {"git"})
  /\ UNCHANGED <<workspace, calls, callNo, pc, thrown, resolution, pipeline,
                 fsConcurrencyPreset, manifest, verbVars>>

\* the awaited git call resolved and the operation awaits its next one:
\* fetch, destroyAllUncommittedChangesAndFiles, checkout or clone, checkout
CloneAdvanced(f, repo) ==
  /\ pc[f] = "clone"
  /\ repo \in InFlight(batch[f])
  /\ batch[f].inflight[repo] # "git.checkout"
  /\ batch' = [batch EXCEPT ![f] =
                 Suspend(@, repo, IF batch[f].inflight[repo] = "git.fetch"
                                    THEN "git.destroyAllUncommittedChangesAndFiles"
                                    ELSE "git.checkout")]
  /\ UNCHANGED <<workspace, calls, callNo, pc, thrown, resolution, pipeline, invoked,
                 fsConcurrencyPreset, manifest, verbVars>>

\* git.checkout resolved: the operation is over
CloneSucceeded(f, repo) ==
  /\ pc[f] = "clone"
  /\ repo \in InFlight(batch[f])
  /\ batch[f].inflight[repo] = "git.checkout"
  /\ batch' = [batch EXCEPT ![f] = Succeed(@, repo)]
  /\ UNCHANGED <<workspace, calls, callNo, pc, thrown, resolution, pipeline, invoked,
                 fsConcurrencyPreset, manifest, verbVars>>

\* a rejected git call whose error leaves init() instead of being caught
CloneFailedThrows(f, repo) ==
  /\ pc[f] = "clone"
  /\ repo \in InFlight(batch[f])
  /\ Throw(f, batch[f].inflight[repo] \o " failed")
  /\ UNCHANGED <<workspace, calls, callNo, resolution, pipeline, batch, invoked,
                 fsConcurrencyPreset, manifest, verbVars>>

\* the awaited git call rejected: batchProcess catches the error
CloneFailed(f, repo) ==
  /\ pc[f] = "clone"
  /\ repo \in InFlight(batch[f])
  /\ batch' = [batch EXCEPT ![f] = Fail(@, repo, batch[f].inflight[repo] \o " failed")]
  /\ UNCHANGED <<workspace, calls, callNo, pc, thrown, resolution, pipeline, invoked,
                 fsConcurrencyPreset, manifest, verbVars>>

\* a narrowing that keeps every input of the phase
InputKeys(b) == b.items

\* [...results.successes.keys()], lines 275 and 281
SuccessKeys(b) == b.successes

\* the clone batch has resolved: its failures are collected (274), the working
\* set narrows to its successes (275) and _configureBowerWorkspace is called
\* (279): .bowerrc is written (writeFileSync may throw), then batchProcess
CloneDone(f, writeOk) ==
  /\ pc[f] = "clone"
  /\ Resolved(batch[f])
  /\ failedWorkspaceRepos' =
       [failedWorkspaceRepos EXCEPT ![f] = collectFailures(@, batch[f].failures)]
  /\ workspaceRepos' = [workspaceRepos EXCEPT ![f] = SuccessKeys(batch[f])]
  /\ phaseSets' = [phaseSets EXCEPT ![f] = Append(@, SuccessKeys(batch[f]))]
  /\ phaseFailures' = [phaseFailures EXCEPT ![f] = Append(@, batch[f].failures)]
  /\ bowerConfig' = [bowerConfig EXCEPT ![f] = NoManifest]
  /\ IF writeOk
       THEN /\ Goto(f, "configure")
            /\ batch' = [batch EXCEPT ![f] =
                           BatchProcess(SuccessKeys(batch[f]), fsConcurrencyPreset[f])]
       ELSE /\ Throw(f, "writeFileSync failed")
            /\ UNCHANGED batch
  /\ UNCHANGED <<workspace, calls, callNo, resolution, invoked, fsConcurrencyPreset,
                 installs, verbVars>>

\* ---- phase: configure the bower workspace (lines 207-211)
ConfigureLaunched(f) ==
  /\ pc[f] = "configure"
  /\ CanLaunch(batch[f])
  /\ batch' = [batch EXCEPT ![f] = Launch(@, "git.getHeadSha")]
  /\ UNCHANGED <<workspace, calls, callNo, pc, thrown, resolution, pipeline, invoked,
                 fsConcurrencyPreset, manifest, verbVars>>

\* bowerConfig.dependencies[repo.github.name] = `./${repo.github.name}#${sha}`,
\* lines 209-210: the entry is keyed by the short name; its value is held as
\* the repo whose task read the sha
SetDependency(dependencies, repo) == MapSet(dependencies, ShortName(repo), repo)

\* getHeadSha resolved: the task writes its entry and is over, with no await
\* in between (lines 208-210)
ConfigureSucceeded(f, repo) ==
  /\ pc[f] = "configure"
  /\ repo \in InFlight(batch[f])
  /\ batch' = [batch EXCEPT ![f] = Succeed(@, repo)]
  /\ bowerConfig' = [bowerConfig EXCEPT ![f].dependencies = SetDependency(@, repo)]
  /\ UNCHANGED <<workspace, calls, callNo, pc, thrown, resolution, pipeline, invoked,
                 fsConcurrencyPreset, installs, verbVars>>

ConfigureFailed(f, repo) ==
  /\ pc[f] = "configure"
  /\ repo \in InFlight(batch[f])
  /\ batch' = [batch EXCEPT ![f] = Fail(@, repo, "git.getHeadSha failed")]
  /\ UNCHANGED <<workspace, calls, callNo, pc, thrown, resolution, pipeline, invoked,
                 fsConcurrencyPreset, manifest, verbVars>>

\* a _configureBowerWorkspace that does not await its batch
ConfigureNotAwaited(f) == TRUE

\* await batchProcess(...), line 207: the batch has resolved
ConfigureAwaited(f) == Resolved(batch[f])

\* the configure batch has resolved: bower.json is written (213; writeFileSync
\* may throw before init() sees the result), the failures are collected (280),
\* the working set narrows (281) and bower install is started (284)
ConfigureDone(f, writeOk) ==
  /\ pc[f] = "configure"
  /\ ConfigureAwaited(f)
  /\ IF writeOk
       THEN /\ bowerConfig' = [bowerConfig EXCEPT ![f].persisted = TRUE]
            /\ installs' = [installs EXCEPT ![f] = @ + 1]
            /\ failedWorkspaceRepos' =
                 [failedWorkspaceRepos EXCEPT ![f] = collectFailures(@, batch[f].failures)]
            /\ workspaceRepos' = [workspaceRepos EXCEPT ![f] = SuccessKeys(batch[f])]
            /\ phaseSets' = [phaseSets EXCEPT ![f] = Append(@, SuccessKeys(batch[f]))]
            /\ phaseFailures' = [phaseFailures EXCEPT ![f] = Append(@, batch[f].failures)]
            /\ Invoke(f, {"exec"})
            /\ Goto(f, "install")
       ELSE /\ Throw(f, "writeFileSync failed")
            /\ UNCHANGED <<failedWorkspaceRepos, workspaceRepos, phaseSets,
                           phaseFailures, invoked, manifest>>
  /\ batch' = [batch EXCEPT ![f] = NoBatch]
  /\ UNCHANGED <<workspace, calls, callNo, resolution, fsConcurrencyPreset, verbVars>>

\* ---- install (lines 284-288)
\* bower install resolved: the working set is recorded and init() returns
\* {workspaceRepos, failures: failedWorkspaceRepos}
InstallSucceeded(f) ==
  /\ pc[f] = "install"
  /\ initializedRepos' = [defined |-> TRUE, repos |-> workspaceRepos[f]]
  /\ Goto(f, "done")
  /\ UNCHANGED <<overlap, hosted, calls, callNo, resolution, pipeline, batch,
                 fsConcurrencyPreset, invoked, manifest, verbVars>>

\* an init() that records the working set before it awaits bower install
InstallFailedButRecorded(f) ==
  /\ pc[f] = "install"
  /\ initializedRepos' = [defined |-> TRUE, repos |-> workspaceRepos[f]]
  /\ Throw(f, "bower install failed")
  /\ UNCHANGED <<overlap, hosted, calls, callNo, resolution, pipeline, batch,
                 fsConcurrencyPreset, invoked, manifest, verbVars>>

\* bower install rejected: init() throws, nothing is recorded
InstallFailed(f) ==
  /\ pc[f] = "install"
  /\ Throw(f, "bower install failed")
  /\ UNCHANGED <<workspace, calls, callNo, resolution, pipeline, batch, invoked,
                 fsConcurrencyPreset, manifest, verbVars>>

\* ------------------------------------------------------- post-init verbs
Verbs == {"run", "startNewBranch", "commitChanges", "pushChangesToGithub",
          "publishPackagesToNpm"}

\* the collaborator call each verb makes per repo
VerbCallOf(kind) ==
  CASE kind = "run" -> "fn"
    [] kind = "startNewBranch" -> "git.createBranch"
    [] kind = "commitChanges" -> "git.commit"
    [] kind = "pushChangesToGithub" -> "git.pushCurrentBranchToOrigin"
    [] OTHER -> "npm.publishToNpm"

\* the concurrency arguments a caller gives run(): none, or a number
ConcurrencyArgs == {<<>>} \cup {<<n>> : n \in 1..MaxConcurrency}

\* an assertInitialized that never throws
AssertInitializedNeverThrows == FALSE

\* private assertInitialized(), lines 88-92: whether it throws
AssertInitializedThrows == ~IsInitialized

\* a verb is called on a Workspace that is not initialized: assertInitialized
\* throws before anything else
VerbThrows(kind) ==
  /\ MayCall("verb")
  /\ AssertInitializedThrows
  /\ verb' = [kind |-> kind, concurrency |-> <<>>, pc |-> "thrown",
              error |-> NotInitializedError]
  /\ vbatch' = NoBatch
  /\ ReleaseFrames
  /\ UNCHANGED <<workspace, calls>>

\* run(workspaceRepos, fn, concurrency = 1), lines 295-301; concurrencyArg is
\* <<>> when the caller omits the argument, else <<n>>
Run(repos, concurrencyArg) ==
  /\ MayCall("verb")
  /\ ~AssertInitializedThrows
  /\ verb' = [kind |-> "run", concurrency |-> concurrencyArg, pc |-> "running",
              error |-> Undefined]
  /\ vbatch' = BatchProcess(repos, IF concurrencyArg = <<>> THEN 1 ELSE concurrencyArg[1])
  /\ ReleaseFrames
  /\ UNCHANGED <<workspace, calls>>

\* startNewBranch, commitChanges, pushChangesToGithub, publishPackagesToNpm:
\* lines 306-348, each with its preset, read as c, as the concurrency
VerbCalled(kind, repos, c) ==
  /\ MayCall("verb")
  /\ kind # "run"
  /\ ~AssertInitializedThrows
  /\ verb' = [kind |-> kind, concurrency |-> <<>>, pc |-> "running", error |-> Undefined]
  /\ vbatch' = BatchProcess(repos, c)
  /\ ReleaseFrames
  /\ UNCHANGED <<workspace, calls>>

VerbLaunched ==
  /\ verb.pc = "running"
  /\ CanLaunch(vbatch)
  /\ vbatch' = Launch(vbatch, VerbCallOf(verb.kind))
  /\ UNCHANGED <<workspace, initVars, verb>>

VerbSucceeded(repo) ==
  /\ verb.pc = "running"
  /\ repo \in InFlight(vbatch)
  /\ vbatch' = Succeed(vbatch, repo)
  /\ UNCHANGED <<workspace, initVars, verb>>

VerbFailed(repo) ==
  /\ verb.pc = "running"
  /\ repo \in InFlight(vbatch)
  /\ vbatch' = Fail(vbatch, repo, vbatch.inflight[repo] \o " failed")
  /\ UNCHANGED <<workspace, initVars, verb>>

\* the verb's batch has resolved: the verb returns the two maps
VerbReturned ==
  /\ verb.pc = "running"
  /\ Resolved(vbatch)
  /\ verb' = [verb EXCEPT !.pc = "returned"]
  /\ UNCHANGED <<workspace, initVars, vbatch>>

\* ------------------------------------------------------------------ spec
\* the repos a caller passes a verb: a subsequence of the initialized set
VerbInputs == {Filter(initializedRepos.repos, S) : S \in SUBSET Range(initializedRepos.repos)}

Next ==
  \/ \E f \in Frames : InitRejected(f)
  \/ \E f \in Frames : InitCalled(f)
  \/ \E f \in Frames : CommandNotFound(f)
  \/ \E f \in Frames : CommandFound(f)
  \/ \E f \in Frames, e \in ExcludeLists : DetermineThrows(f, e)
  \/ \E f \in Frames, e \in ExcludeLists : DetermineGitHubRepos(f, e)
  \/ \E f \in Frames : ExpandFailed(f)
  \/ \E f \in Frames, refs \in Expansions : Expanded(f, refs)
  \/ \E f \in Frames, ref \in Refs, ok \in BOOLEAN : GotRepoInfo(f, ref, ok)
  \/ \E f \in Frames, fresh \in BOOLEAN, m \in BOOLEAN, c \in PresetValues :
       OpenWorkspaceRepos(f, fresh, m, c)
  \/ \E f \in Frames, ok \in BOOLEAN, m \in BOOLEAN, c \in PresetValues :
       WorkspaceRemoved(f, ok, m, c)
  \/ \E f \in Frames, d \in {"absent", "folder", "git"} : PrepareLaunched(f, d)
  \/ \E f \in Frames, i \in Refs : PrepareSucceeded(f, i)
  \/ \E f \in Frames, i \in Refs : PrepareFailed(f, i)
  \/ \E f \in Frames : PrepareDone(f)
  \/ \E f \in Frames, g \in BOOLEAN : CloneLaunched(f, g)
  \/ \E f \in Frames, i \in Refs : CloneAdvanced(f, i)
  \/ \E f \in Frames, i \in Refs : CloneSucceeded(f, i)
  \/ \E f \in Frames, i \in Refs : CloneFailed(f, i)
  \/ \E f \in Frames, w \in BOOLEAN : CloneDone(f, w)
  \/ \E f \in Frames : ConfigureLaunched(f)
  \/ \E f \in Frames, i \in Refs : ConfigureSucceeded(f, i)
  \/ \E f \in Frames, i \in Refs : ConfigureFailed(f, i)
  \/ \E f \in Frames, w \in BOOLEAN : ConfigureDone(f, w)
  \/ \E f \in Frames : InstallSucceeded(f)
  \/ \E f \in Frames : InstallFailed(f)
  \/ \E k \in Verbs : VerbThrows(k)
  \/ \E repos \in VerbInputs, c \in ConcurrencyArgs : Run(repos, c)
  \/ \E k \in Verbs, repos \in VerbInputs, c \in PresetValues : VerbCalled(k, repos, c)
  \/ VerbLaunched
  \/ \E i \in Refs : VerbSucceeded(i)
  \/ \E i \in Refs : VerbFailed(i)
  \/ VerbReturned

\* the Workspace under a caller that awaits every call
Spec == Init /\ [][Next]_vars

\* the Workspace under a caller that calls the verbs while init() is in progress
SpecEarlyVerbs == InitEarlyVerbs /\ [][Next]_vars

\* the Workspace under a caller that calls init() while init() is in progress
SpecOverlap == InitOverlap /\ [][Next]_vars

\* ---------------------------------------------------------------- claims
\* every batchProcess call in progress or resolved
Batches == {batch[f] : f \in Frames} \cup {vbatch}

\* the errors of the per-repo operations of the three phases
PerRepoErrors ==
  {"rimraf(repo.dir) failed"} \cup
  {step \o " failed" : step \in {"git.fetch", "git.destroyAllUncommittedChangesAndFiles",
                                 "git.clone", "git.checkout", "git.getHeadSha"}}

\* C1: in every init run the working set after each phase (prepare, clone or
\* update, configure) is a subset of the working set after the preceding
\* phase, and every repo present after one phase and absent after the next is
\* a key of the failure ledger with an error value.
WorkingSetNarrows ==
  \A f \in Frames : \A n \in 2..Len(phaseSets[f]) :
    /\ Range(phaseSets[f][n]) \subseteq Range(phaseSets[f][n - 1])
    /\ \A r \in Range(phaseSets[f][n - 1]) \ Range(phaseSets[f][n]) :
         r \in DOMAIN failedWorkspaceRepos[f] /\ failedWorkspaceRepos[f][r] # Undefined

\* a run in which the clone phase removed a repo and the configure phase another
NarrowedInTwoPhases ==
  \E f \in Frames :
    /\ Len(phaseSets[f]) = 4
    /\ Len(phaseSets[f][3]) < Len(phaseSets[f][2])
    /\ Len(phaseSets[f][4]) < Len(phaseSets[f][3])

\* C2: every per-repo failure captured in the prepare, clone or configure phase
\* of an init run is in the failure ledger the run returns, keyed by the
\* WorkspaceRepo that failed.
CapturedFailuresInLedger ==
  \A f \in Frames : pc[f] = "done" =>
    \A n \in 1..Len(phaseFailures[f]) :
      DOMAIN phaseFailures[f][n] \subseteq DOMAIN failedWorkspaceRepos[f]

\* C3: when a batchProcess call resolves, the keys of its success map and of
\* its failure map are disjoint and their union is the set of input items,
\* each item with one outcome, for any concurrency and any mix of outcomes.
BatchOutcomesPartition ==
  \A b \in Batches : Resolved(b) =>
    /\ Range(b.successes) \cap DOMAIN b.failures = {}
    /\ Range(b.successes) \cup DOMAIN b.failures = Range(b.items)
    /\ Len(b.successes) = Cardinality(Range(b.successes))

\* a run() call that has returned with a success and a failure
RunReturnedMixed ==
  /\ verb.kind = "run"
  /\ verb.pc = "returned"
  /\ vbatch.successes # <<>>
  /\ vbatch.failures # EmptyMap

\* C4: in every state of a batchProcess call the operations started and not
\* completed are at most the concurrency given to the call; run() called
\* without a concurrency runs its operations one at a time.
InFlightWithinConcurrency ==
  /\ \A b \in Batches : Cardinality(InFlight(b)) <= b.concurrency
  /\ verb.kind = "run" /\ verb.concurrency = <<>> => Cardinality(InFlight(vbatch)) <= 1

\* run() without a concurrency has one operation in flight and an item waiting
RunDefaultHoldsBack ==
  /\ verb.kind = "run"
  /\ verb.concurrency = <<>>
  /\ Cardinality(InFlight(vbatch)) = 1
  /\ vbatch.next <= Len(vbatch.items)

\* C5: a post-init verb called on a Workspace whose init has not completed
\* successfully, an init in flight included, fails with the not-initialized
\* error and starts no batchProcess call and no operation.
VerbBeforeInitFails ==
  verb.kind # "none" /\ ~IsInitialized =>
    /\ verb.pc = "thrown"
    /\ verb.error = NotInitializedError
    /\ vbatch = NoBatch

\* a verb has thrown while an init() call waits for bower install
VerbThrownDuringInit ==
  /\ verb.pc = "thrown"
  /\ verb.error = NotInitializedError
  /\ \E f \in Frames : pc[f] = "install"

WorkingSetAndLedgerPartition ==
  \A f \in Frames : pc[f] = "done" =>
    /\ Range(workspaceRepos[f]) \cap DOMAIN failedWorkspaceRepos[f] = {}
    /\ Range(workspaceRepos[f]) \cup DOMAIN failedWorkspaceRepos[f] = Range(githubRepos[f])
    /\ initializedRepos.repos = workspaceRepos[f]

\* init has completed with a repo in the working set and a repo in the ledger
DoneWithBoth ==
  \E f \in Frames :
    /\ pc[f] = "done"
    /\ workspaceRepos[f] # <<>>
    /\ failedWorkspaceRepos[f] # EmptyMap

\* C8: if bower install fails, init throws and the Workspace is not
\* initialized by that run: isInitialized is false, no working set is
\* recorded, and assertInitialized still throws for every verb.
InstallFailureLeavesUninitialized ==
  \A f \in Frames : pc[f] = "thrown" /\ thrown[f] = "bower install failed" =>
    /\ ~IsInitialized
    /\ initializedRepos = NotInitialized
    /\ AssertInitializedThrows

\* bower install has failed in a run whose working set is not empty
InstallFailedWithRepos ==
  \E f \in Frames :
    /\ thrown[f] = "bower install failed"
    /\ workspaceRepos[f] # <<>>

\* C9: init never throws because of per-repo failures: the error of a call
\* that threw is none of the errors of the per-repo operations, whichever
\* repos failed in prepare, clone or configure.
InitSurvivesRepoFailures ==
  \A f \in Frames : pc[f] = "thrown" => thrown[f] \notin PerRepoErrors

\* init has completed although every repo failed, one of them in prepare too
DoneWithEveryRepoFailed ==
  \E f \in Frames :
    /\ pc[f] = "done"
    /\ Len(githubRepos[f]) >= 2
    /\ workspaceRepos[f] = <<>>
    /\ phaseFailures[f][1] # EmptyMap

\* the names an exclude list matches without regard to case
Excluded(excludes) == {i \in Refs : ToLowerCase(FullName(i))
                                     \in {ToLowerCase(e) : e \in Range(excludes)}}

\* C10: resolution removes every candidate whose full name matches an exclude
\* entry case-insensitively and keeps every other candidate: a call given
\* excludes does not fail on them, and the references it looks up are the
\* candidates that no exclude entry matches.
ExcludedCandidatesRemoved ==
  \A f \in Frames : exclude[f] # <<>> =>
    /\ thrown[f] # "TypeError"
    /\ Range(repoRefs[f]) \cap Excluded(exclude[f]) = {}

\* C11: if git, bower or npm is missing, init throws before any repo work:
\* the run has called nothing but checkCommand, has expanded no pattern,
\* opened no WorkspaceRepo and started no batch, and the Workspace is not
\* initialized.
MissingCommandAbortsEarly ==
  \A f \in Frames : thrown[f] = "command not found" =>
    /\ invoked[f] = {"checkCommand"}
    /\ repoRefs[f] = <<>> /\ githubRepos[f] = <<>>
    /\ workspaceRepos[f] = <<>> /\ phaseSets[f] = <<>>
    /\ batch[f] = NoBatch
    /\ ~IsInitialized

\* an init() call has thrown for a missing command
CommandWasMissing ==
  \E f \in Frames : pc[f] = "thrown" /\ thrown[f] = "command not found"

\* C12: an operation of the clone or configure phase is started on a repo
\* only after the repo's operation of every earlier phase succeeded: a repo
\* that failed in a phase has no operation started on it in a later phase.
PhaseStartsOnSurvivors ==
  \A f \in Frames :
    /\ pc[f] = "clone" =>
         Started(batch[f]) \cap DOMAIN phaseFailures[f][1] = {}
    /\ pc[f] = "configure" =>
         Started(batch[f]) \cap (DOMAIN phaseFailures[f][1] \cup DOMAIN phaseFailures[f][2]) = {}

\* C13: a batchProcess call resolves only after every input item's operation
\* has its outcome, and a failed operation cancels or skips no other: every
\* item passed over by the window has been started and is in flight or has
\* its outcome, and what init and the verbs get back covers every input.
BatchRunsEveryItem ==
  /\ \A b \in Batches :
       Started(b) = InFlight(b) \cup Range(b.successes) \cup DOMAIN b.failures
  /\ verb.pc = "returned" =>
       Range(vbatch.items) = Range(vbatch.successes) \cup DOMAIN vbatch.failures
  /\ \A f \in Frames : \A n \in 2..Len(phaseFailures[f]) :
       Range(phaseSets[f][n]) = Range(phaseSets[f][n + 1]) \cup DOMAIN phaseFailures[f][n]

\* a clone batch of concurrency 1 has resolved: its first repo failed and the
\* second, started after that, succeeded
SecondClonedAfterFirstFailed ==
  \E f \in Frames :
    /\ pc[f] = "clone"
    /\ Resolved(batch[f])
    /\ batch[f].concurrency = 1
    /\ Len(batch[f].items) = 2
    /\ batch[f].items[1] \in DOMAIN batch[f].failures
    /\ batch[f].items[2] \in Range(batch[f].successes)

\* C14: a getRepoInfo failure for one candidate does not abort resolution:
\* the candidate is dropped, no WorkspaceRepo is opened for it, it is never
\* a key of the ledger, and every candidate whose lookup succeeded is in the
\* initial working set.
FailedLookupOnlyDrops ==
  \A f \in Frames : Len(phaseSets[f]) >= 1 =>
    /\ Range(phaseSets[f][1]) = {i \in DOMAIN repoInfo[f] : repoInfo[f][i] = "ok"}
    /\ Range(githubRepos[f]) = Range(phaseSets[f][1])
    /\ \A i \in DOMAIN repoInfo[f] : repoInfo[f][i] = "error" =>
         /\ i \notin DOMAIN failedWorkspaceRepos[f]
         /\ i \notin Range(workspaceRepos[f])
         /\ \A n \in 1..Len(phaseFailures[f]) : i \notin DOMAIN phaseFailures[f][n]

\* init has completed with one candidate dropped at its lookup and another
\* in the working set
DoneWithCandidateDropped ==
  \E f \in Frames :
    /\ pc[f] = "done"
    /\ \E i \in DOMAIN repoInfo[f] : repoInfo[f][i] = "error"
    /\ workspaceRepos[f] # <<>>

\* C15: whatever the interleaving of the configure tasks, the manifest
\* written to bower.json holds, for every repo whose task succeeded, an
\* entry under the repo's name with the sha that repo's own task read: no
\* entry is lost or overwritten by another repo's task.
ManifestHoldsEveryEntry ==
  \A f \in Frames : bowerConfig[f].persisted =>
    \A r \in Range(phaseSets[f][4]) :
      /\ ShortName(r) \in DOMAIN bowerConfig[f].dependencies
      /\ bowerConfig[f].dependencies[ShortName(r)] = r

\* C16: within one init run the ledger only grows: a key stays a key with
\* the error it was recorded with, and every key was recorded by one phase
\* only, the phase that removed the repo from the working set.
LedgerOnlyGrows ==
  /\ [](\A f \in Frames : \A r \in DOMAIN failedWorkspaceRepos[f] :
          \E n \in 2..Len(phaseFailures[f]) :
            /\ r \in DOMAIN phaseFailures[f][n]
            /\ failedWorkspaceRepos[f][r] = phaseFailures[f][n][r]
            /\ \A k \in 2..Len(phaseFailures[f]) : r \in DOMAIN phaseFailures[f][k] => k = n)
  /\ [][\A f \in Frames : callNo[f] # 0 /\ callNo'[f] = callNo[f] =>
          \A r \in DOMAIN failedWorkspaceRepos[f] :
            /\ r \in DOMAIN failedWorkspaceRepos'[f]
            /\ failedWorkspaceRepos'[f][r] = failedWorkspaceRepos[f][r]]_vars

\* init has completed with a ledger that the clone phase and the configure
\* phase both added to
LedgerFromTwoPhases ==
  \E f \in Frames :
    /\ pc[f] = "done"
    /\ phaseFailures[f][2] # EmptyMap
    /\ phaseFailures[f][3] # EmptyMap

\* C17: after each narrowing step the working set is a subsequence of the
\* working set before it: the surviving repos keep their relative order and
\* none appears twice, for every completion order and every concurrency.
NarrowingKeepsOrder ==
  \A f \in Frames : \A n \in 2..Len(phaseSets[f]) :
    phaseSets[f][n] = Filter(phaseSets[f][n - 1], Range(phaseSets[f][n]))

OneWorkspaceRepoPerDir ==
  \A f \in Frames :
    /\ \A r, q \in Range(workspaceRepos[f]) : SessionDir(r) = SessionDir(q) => r = q
    /\ \A r, q \in InFlight(batch[f]) : SessionDir(r) = SessionDir(q) => r = q

\* the places of an init() call that has passed validation and is at work
PipelinePcs == {"expand", "getRepoInfo", "rimrafWorkspace", "prepare", "clone",
                "configure", "install"}

\* C20: at most one init pipeline is in progress on a Workspace: an init
\* call made while an earlier one is in flight is rejected and starts no
\* repo work.
OneInitPipeline ==
  Cardinality({f \in Frames : pc[f] \in PipelinePcs}) <= 1
====
